---- MODULE Spec2Model ----
(***************************************************************************)
(* The river-ecosystem simulation engine of app.py: the session state, the *)
(* "Simulate Next Day" handler (update_simulation with its weather draw)   *)
(* and the "Reset Simulation" handler.                                     *)
(*                                                                         *)
(* Water-quality parameters are Python floats.  They are modelled as       *)
(* fixed-point numbers: an integer n stands for n / Scale, and every       *)
(* product is rounded to the nearest multiple of 1 / Scale.  All the       *)
(* coefficients of the code and the input levels used here are exact at    *)
(* this resolution.  score, eco_points and day are Python ints and are     *)
(* modelled as integers.                                                   *)
(***************************************************************************)
EXTENDS Integers, Sequences, FiniteSets, TLC

\* ------------------------------------------------------------------ bounds
MaxDay == 3
MaxCollapseDay == 8

\* ------------------------------------------------------- fixed-point reals
Scale == 10^4

\* The decimal n / den, e.g. Dec(85, 10) is 8.5.
Dec(n, den) == (n * Scale) \div den

\* x * (num / den), rounded to the nearest 1 / Scale, sign-symmetric.
Fx(x, num, den) ==
    IF x >= 0 THEN (x * num + den \div 2) \div den
              ELSE -(((-x) * num + den \div 2) \div den)

\* Product of two fixed-point numbers.
MulS(a, b) == Fx(a, b, Scale)

Max(a, b) == IF a >= b THEN a ELSE b
Min(a, b) == IF a <= b THEN a ELSE b

\* ------------------------------------------------------------------ state
VARIABLES
    params,            \* st.session_state.params
    day,               \* st.session_state.day
    history,           \* st.session_state.history
    ecosystem_state,   \* st.session_state.ecosystem_state
    last_weather,      \* st.session_state.last_weather
    event_log,         \* st.session_state.event_log (newest first)
    pollution_inputs,  \* the three sliders, as passed to update_simulation
    policies,          \* the four checkboxes, as passed to update_simulation
    pc                 \* "idle" between handlers; "call" / "return" around a
                       \* single stage exercised on its own

vars == <<params, day, history, ecosystem_state, last_weather, event_log,
          pollution_inputs, policies, pc>>

Weathers == {"Sunny", "Heavy Rain", "Drought", "Flash Flood"}

NoPolicies ==
    [treatment |-> FALSE, organic |-> FALSE, regulation |-> FALSE, cleanup |-> FALSE]

AllPolicies ==
    [treatment |-> TRUE, organic |-> TRUE, regulation |-> TRUE, cleanup |-> TRUE]

PolicySpace ==
    [treatment : BOOLEAN, organic : BOOLEAN, regulation : BOOLEAN, cleanup : BOOLEAN]

SliderInputs(f, a, u) ==
    [factory |-> Dec(f, 1), farm |-> Dec(a, 1), urban |-> Dec(u, 1)]

\* Slider positions and checkbox settings the user picks before a click.
InputChoices ==
    { SliderInputs(0, 0, 0), SliderInputs(0, 10, 0), SliderInputs(0, 0, 10),
      SliderInputs(10, 10, 10) }

PolicyChoices == { NoPolicies, AllPolicies }

InitialParams ==
    [ do |-> Dec(8, 1), ph |-> Dec(7, 1), nitrates |-> Dec(2, 1),
      toxins |-> 0, turbidity |-> Dec(5, 1), algae |-> Dec(10, 1),
      plants |-> Dec(100, 1), score |-> 100, eco_points |-> 0 ]

Init ==
    /\ params = InitialParams
    /\ day = 0
    /\ history = << >>
    /\ ecosystem_state = "Healthy"
    /\ last_weather = "Sunny"
    /\ event_log = << >>
    /\ pollution_inputs = [factory |-> Dec(2, 1), farm |-> Dec(2, 1), urban |-> Dec(1, 1)]
    /\ policies = NoPolicies
    /\ pc = "idle"

\* ------------------------------------------------------ update_simulation
\* Variant: dissolved oxygen recovers at rate 0.10 instead of 0.15.
NaturalProcesses_SlowRecovery(p) ==
    [p EXCEPT !.do = p.do + Fx(Dec(85, 10) - p.do, 10, 100),
              !.nitrates = Fx(p.nitrates, 92, 100),
              !.toxins = Fx(p.toxins, 85, 100),
              !.turbidity = p.turbidity + Fx(Dec(5, 1) - p.turbidity, 2, 10)]

\* 1. Natural processes (base decay / regeneration).
NaturalProcesses(p) ==
    [p EXCEPT !.do = p.do + Fx(Dec(85, 10) - p.do, 15, 100),
              !.nitrates = Fx(p.nitrates, 92, 100),
              !.toxins = Fx(p.toxins, 85, 100),
              !.turbidity = p.turbidity + Fx(Dec(5, 1) - p.turbidity, 2, 10)]

treat_mod(pol) == IF pol.treatment THEN Dec(15, 100) ELSE Dec(1, 1)
org_mod(pol) == IF pol.organic THEN Dec(35, 100) ELSE Dec(1, 1)
\* Variant: emission regulation has no effect on the factory pathway.
reg_mod_Ignored(pol) == Dec(1, 1)

reg_mod(pol) == IF pol.regulation THEN Dec(4, 10) ELSE Dec(1, 1)

cleanup_effect(pol) == IF pol.cleanup THEN Dec(2, 1) ELSE 0

\* Variant: urban expansion does not deplete dissolved oxygen.
ApplyInputs_NoOxygenDemand(p, inp, pol) ==
    [p EXCEPT !.toxins = p.toxins
                  + MulS(MulS(Fx(inp.factory, 6, 10), treat_mod(pol)), reg_mod(pol)),
              !.nitrates = p.nitrates + MulS(Fx(inp.farm, 9, 10), org_mod(pol)),
              !.turbidity = p.turbidity + Fx(inp.urban, 15, 10)
                  + MulS(Fx(inp.factory, 4, 10), treat_mod(pol))]

\* 2. Policy and pollution impact: "Apply Inputs".
ApplyInputs(p, inp, pol) ==
    [p EXCEPT !.toxins = p.toxins
                  + MulS(MulS(Fx(inp.factory, 6, 10), treat_mod(pol)), reg_mod(pol)),
              !.nitrates = p.nitrates + MulS(Fx(inp.farm, 9, 10), org_mod(pol)),
              !.turbidity = p.turbidity + Fx(inp.urban, 15, 10)
                  + MulS(Fx(inp.factory, 4, 10), treat_mod(pol)),
              !.do = p.do - Fx(inp.urban, 4, 10)]

\* Secondary effects: algae growth, oxygen depletion by algae, plant damage.
SecondaryEffects(p) ==
    LET algae_growth == Fx(p.nitrates, 5, 10) - Fx(p.turbidity, 1, 10)
        algae == Max(0, Min(Dec(100, 1), p.algae + algae_growth))
        do == IF algae > Dec(40, 1)
              THEN p.do - Fx(algae - Dec(40, 1), 5, 100)
              ELSE p.do
        plant_damage == Fx(p.toxins, 2, 1)
                        + Fx(Max(0, p.turbidity - Dec(20, 1)), 5, 10)
    IN  [p EXCEPT !.algae = algae,
                  !.do = do,
                  !.plants = Max(0, Min(Dec(100, 1), p.plants - plant_damage + Dec(2, 1)))]

\* Variant: the cleanup drive lowers turbidity without the floor of 5.
CleanupDrive_NoTurbidityFloor(p, pol) ==
    [p EXCEPT !.toxins = Max(0, p.toxins - Fx(cleanup_effect(pol), 5, 10)),
              !.turbidity = p.turbidity - Fx(cleanup_effect(pol), 2, 1)]

\* Cleanup drive reduces toxins and turbidity.
CleanupDrive(p, pol) ==
    [p EXCEPT !.toxins = Max(0, p.toxins - Fx(cleanup_effect(pol), 5, 10)),
              !.turbidity = Max(Dec(5, 1), p.turbidity - Fx(cleanup_effect(pol), 2, 1))]

\* Variant: the bounding pass derives and clamps ph but leaves do as it is.
BoundParameters_NoOxygenClamp(p) ==
    LET ph == Dec(7, 1) - Fx(p.toxins, 25, 100) + Fx(p.nitrates, 15, 100)
    IN  [p EXCEPT !.ph = Max(Dec(1, 1), Min(Dec(14, 1), ph))]

\* "Bound Parameters": clamp do, derive and clamp ph.
BoundParameters(p) ==
    LET ph == Dec(7, 1) - Fx(p.toxins, 25, 100) + Fx(p.nitrates, 15, 100)
    IN  [p EXCEPT !.do = Max(0, Min(Dec(12, 1), p.do)),
                  !.ph = Max(Dec(1, 1), Min(Dec(14, 1), ph))]

\* Variant: the Stressed rule ignores nitrates.
Classify_NoNitrateRule(p) ==
    IF p.do < Dec(25, 10) \/ p.toxins > Dec(45, 10) \/ p.plants < Dec(20, 1)
    THEN "Critical"
    ELSE IF p.do < Dec(45, 10) \/ p.turbidity > Dec(30, 1)
         THEN "Stressed"
         ELSE "Healthy"

\* Variant: the comparisons include the thresholds.
Classify_NonStrict(p) ==
    IF p.do <= Dec(25, 10) \/ p.toxins >= Dec(45, 10) \/ p.plants <= Dec(20, 1)
    THEN "Critical"
    ELSE IF p.do <= Dec(45, 10) \/ p.nitrates >= Dec(75, 10) \/ p.turbidity >= Dec(30, 1)
         THEN "Stressed"
         ELSE "Healthy"

\* 3. Ecosystem health state.
Classify(p) ==
    IF p.do < Dec(25, 10) \/ p.toxins > Dec(45, 10) \/ p.plants < Dec(20, 1)
    THEN "Critical"
    ELSE IF p.do < Dec(45, 10) \/ p.nitrates > Dec(75, 10) \/ p.turbidity > Dec(30, 1)
         THEN "Stressed"
         ELSE "Healthy"

\* Variant: a Critical day takes 5 points away.
daily_points_CriticalLoses(state) ==
    IF state = "Healthy" THEN 10 ELSE IF state = "Stressed" THEN 2 ELSE -5

\* Variant: a Stressed day costs 10 instead of 5.
penalties_StressedTen(state) ==
    IF state = "Healthy" THEN -2 ELSE IF state = "Stressed" THEN 10 ELSE 15

\* 4. Score and eco-points.
daily_points(state) ==
    IF state = "Healthy" THEN 10 ELSE IF state = "Stressed" THEN 2 ELSE 0

penalties(state) ==
    IF state = "Healthy" THEN -2 ELSE IF state = "Stressed" THEN 5 ELSE 15

ScoreAndPoints(p, state) ==
    [p EXCEPT !.eco_points = p.eco_points + daily_points(state),
              !.score = Max(0, Min(100, p.score - penalties(state)))]

\* Variant: the row is stamped with the day index after the increment.
new_row_NextDay(p, d) ==
    [ Day |-> d + 1, DO |-> p.do, pH |-> p.ph, Nitrates |-> p.nitrates,
      Toxins |-> p.toxins, Turbidity |-> p.turbidity, Score |-> p.score ]

\* 5. The history row of the day.
new_row(p, d) ==
    [ Day |-> d, DO |-> p.do, pH |-> p.ph, Nitrates |-> p.nitrates,
      Toxins |-> p.toxins, Turbidity |-> p.turbidity, Score |-> p.score ]

\* Variant: the weather re-bounds dissolved oxygen after its side effect.
trigger_weather_Rebounded(p, event) ==
    IF event = "Heavy Rain"
    THEN [p EXCEPT !.nitrates = p.nitrates + Dec(2, 1)]
    ELSE IF event = "Drought"
    THEN [p EXCEPT !.toxins = Fx(p.toxins, 12, 10),
                   !.do = Max(0, Min(Dec(12, 1), p.do - Dec(1, 1)))]
    ELSE IF event = "Flash Flood"
    THEN [p EXCEPT !.do = Max(0, Min(Dec(12, 1), p.do + Dec(1, 1))),
                   !.toxins = p.toxins + Dec(1, 1)]
    ELSE p

\* Weather logic: the side effect of the drawn event on the parameters.
trigger_weather(p, event) ==
    IF event = "Heavy Rain"
    THEN [p EXCEPT !.nitrates = p.nitrates + Dec(2, 1)]
    ELSE IF event = "Drought"
    THEN [p EXCEPT !.toxins = Fx(p.toxins, 12, 10), !.do = p.do - Dec(1, 1)]
    ELSE IF event = "Flash Flood"
    THEN [p EXCEPT !.do = p.do + Dec(1, 1), !.toxins = p.toxins + Dec(1, 1)]
    ELSE p

\* Event logger: newest entry first, at most 10 entries kept.
log_event(log, message) ==
    LET l == <<message>> \o log
    IN  IF Len(l) > 10 THEN SubSeq(l, 1, Len(l) - 1) ELSE l

\* The entries one update_simulation call logs, oldest first.
LoggedBy(event, d, state, score) ==
    (IF event = "Sunny" THEN << >> ELSE << [msg |-> event, day |-> d] >>)
    \o << [msg |-> state, day |-> d] >>
    \o (IF score > 95 THEN << [msg |-> "thriving", day |-> d] >> ELSE << >>)

RECURSIVE LogAll(_, _)
LogAll(log, msgs) ==
    IF msgs = << >> THEN log ELSE LogAll(log_event(log, Head(msgs)), Tail(msgs))

\* The parameters after stages 1 and 2 up to the bounding pass.
Bounded(p, inp, pol) ==
    BoundParameters(CleanupDrive(SecondaryEffects(
        ApplyInputs(NaturalProcesses(p), inp, pol)), pol))

\* One call of update_simulation(inp, pol) in which random.choices draws event.
Simulate(inp, pol, event) ==
    LET b == Bounded(params, inp, pol)
        state == Classify(b)
        scored == ScoreAndPoints(b, state)
    IN  /\ ecosystem_state' = state
        /\ history' = Append(history, new_row(scored, day))
        /\ params' = trigger_weather(scored, event)
        /\ last_weather' = event
        /\ event_log' = LogAll(event_log, LoggedBy(event, day, state, scored.score))
        /\ day' = day + 1
        /\ pollution_inputs' = inp
        /\ policies' = pol
        /\ UNCHANGED pc

\* "Simulate Next Day" with the sliders and checkboxes at some position.
update_simulation ==
    /\ day < MaxDay
    /\ \E inp \in InputChoices, pol \in PolicyChoices, event \in Weathers :
           Simulate(inp, pol, event)

\* "Reset Simulation": session_state.clear() and re-initialisation on rerun.
Reset ==
    /\ params' = InitialParams
    /\ day' = 0
    /\ history' = << >>
    /\ ecosystem_state' = "Healthy"
    /\ last_weather' = "Sunny"
    /\ event_log' = << >>
    /\ UNCHANGED <<pollution_inputs, policies, pc>>

Next == update_simulation \/ Reset

Spec == Init /\ [][Next]_vars

\* ------------------------------------------ the collapse scenario, on its own
\* Every day is simulated with all three sliders at 10 and no policy.
CollapseStep ==
    /\ day < MaxCollapseDay
    /\ \E event \in Weathers :
           Simulate(SliderInputs(10, 10, 10), NoPolicies, event)

SpecCollapse == Init /\ [][CollapseStep]_vars

\* ------------------------------------- the classification stage, on its own
DOProbes == { Dec(0, 1), Dec(24, 10), Dec(25, 10), Dec(26, 10), Dec(44, 10),
              Dec(45, 10), Dec(46, 10), Dec(8, 1) }
ToxinProbes == { 0, Dec(44, 10), Dec(45, 10), Dec(46, 10) }
PlantProbes == { Dec(19, 1), Dec(20, 1), Dec(21, 1), Dec(100, 1) }
NitrateProbes == { Dec(2, 1), Dec(5, 1), Dec(75, 10), Dec(76, 10) }
TurbidityProbes == { Dec(5, 1), Dec(30, 1), Dec(31, 1) }

InitClassify ==
    /\ params \in { [InitialParams EXCEPT !.do = d, !.toxins = t, !.plants = pl,
                                          !.nitrates = n, !.turbidity = tb] :
                       d \in DOProbes, t \in ToxinProbes, pl \in PlantProbes,
                       n \in NitrateProbes, tb \in TurbidityProbes }
    /\ ecosystem_state \in {"Healthy", "Stressed", "Critical"}
    /\ day = 0
    /\ history = << >>
    /\ last_weather = "Sunny"
    /\ event_log = << >>
    /\ pollution_inputs = [factory |-> Dec(2, 1), farm |-> Dec(2, 1), urban |-> Dec(1, 1)]
    /\ policies = NoPolicies
    /\ pc = "call"

\* Stage 3 of update_simulation applied to the parameters as they stand.
ClassifyStage ==
    /\ pc = "call"
    /\ ecosystem_state' = Classify(params)
    /\ pc' = "return"
    /\ UNCHANGED <<params, day, history, last_weather, event_log,
                   pollution_inputs, policies>>

SpecClassify == InitClassify /\ [][ClassifyStage]_vars

\* ---------------------------------- the pollution-injection stage, on its own
FactoryLevels == 0 .. 10

InitInject ==
    /\ params \in { [InitialParams EXCEPT !.toxins = t] : t \in {0, Dec(25, 10)} }
    /\ pollution_inputs \in { SliderInputs(f, a, 1) : f \in FactoryLevels, a \in {0, 10} }
    /\ policies \in PolicySpace
    /\ ecosystem_state = "Healthy"
    /\ day = 0
    /\ history = << >>
    /\ last_weather = "Sunny"
    /\ event_log = << >>
    /\ pc = "call"

\* "Apply Inputs" of update_simulation applied to the parameters as they stand.
InjectStage ==
    /\ pc = "call"
    /\ params' = ApplyInputs(params, pollution_inputs, policies)
    /\ pc' = "return"
    /\ UNCHANGED <<day, history, ecosystem_state, last_weather, event_log,
                   pollution_inputs, policies>>

SpecInject == InitInject /\ [][InjectStage]_vars

\* ------------------------------------------------ the weather draw, on its own
WeatherDOProbes == { 0, Dec(5, 10), Dec(8, 1), Dec(115, 10), Dec(12, 1) }
WeatherToxinProbes == { 0, Dec(25, 10), Dec(5, 1) }
WeatherNitrateProbes == { Dec(2, 1), Dec(7, 1) }

\* The state update_simulation holds when it reaches the weather draw: the
\* parameters bounded, classified, scored and recorded, the day not yet
\* incremented.
InitWeather ==
    /\ \E d \in WeatherDOProbes, t \in WeatherToxinProbes,
          n \in WeatherNitrateProbes, sc \in {20, 100} :
          LET b == BoundParameters([InitialParams EXCEPT !.do = d, !.toxins = t,
                                       !.nitrates = n, !.score = sc])
              scored == ScoreAndPoints(b, Classify(b))
          IN  /\ params = scored
              /\ ecosystem_state = Classify(b)
              /\ history = << new_row(scored, 0) >>
    /\ day = 0
    /\ last_weather = "Sunny"
    /\ event_log = << >>
    /\ pollution_inputs = [factory |-> Dec(2, 1), farm |-> Dec(2, 1), urban |-> Dec(1, 1)]
    /\ policies = NoPolicies
    /\ pc = "call"

\* "6. Random Weather Event" of update_simulation: the call of trigger_weather
\* with its log entry, and the assignment of its result.
WeatherStage ==
    /\ pc = "call"
    /\ \E event \in Weathers :
          /\ params' = trigger_weather(params, event)
          /\ last_weather' = event
          /\ event_log' = IF event = "Sunny" THEN event_log
                          ELSE log_event(event_log, [msg |-> event, day |-> day])
    /\ pc' = "return"
    /\ UNCHANGED <<day, history, ecosystem_state, pollution_inputs, policies>>

SpecWeather == InitWeather /\ [][WeatherStage]_vars

\* ================================================================== claims
InRange(x, lo, hi) == lo <= x /\ x <= hi

\* A step of the checked behaviour is a call of update_simulation exactly when
\* it leaves a non-empty history (Reset empties it).
Stepped == history' # << >>

LastRow == history[Len(history)]

\* The classification rule as the documentation words it.
HealthRule(do, toxins, plants, nitrates, turbidity) ==
    CASE do < Dec(25, 10) \/ toxins > Dec(45, 10) \/ plants < Dec(20, 1) -> "Critical"
      [] ~(do < Dec(25, 10) \/ toxins > Dec(45, 10) \/ plants < Dec(20, 1))
         /\ (do < Dec(45, 10) \/ nitrates > Dec(75, 10) \/ turbidity > Dec(30, 1)) -> "Stressed"
      [] OTHER -> "Healthy"

\* C1: after every Step call, weather draw included, dissolvedOxygen is in
\* [0, 12].
C1_DissolvedOxygenBounded == InRange(params.do, 0, Dec(12, 1))

\* C2 (as claimed): after every Step call the stored ecosystemHealth is the
\* classification of the parameter values the state holds at that moment,
\* weather side effects included.
C2_HealthMatchesStoredParams ==
    ecosystem_state = HealthRule(params.do, params.toxins, params.plants,
                                 params.nitrates, params.turbidity)

\* C2 (amended): after every Step call the stored ecosystemHealth is the
\* classification of the values the step held after its bounding pass and
\* before its weather draw: the DO, toxins, nitrates and turbidity of the
\* step's history row, and plants (which the weather never changes).
C2_HealthMatchesClassifiedValues ==
    history # << >> =>
        ecosystem_state = HealthRule(LastRow.DO, LastRow.Toxins, params.plants,
                                     LastRow.Nitrates, LastRow.Turbidity)

\* A step has run and its weather left parameters whose classification
\* differs from the stored one.
C2_Witness ==
    /\ history # << >>
    /\ ecosystem_state = "Healthy"
    /\ last_weather = "Heavy Rain"
    /\ params.nitrates > Dec(75, 10)
    /\ LastRow.Nitrates <= Dec(75, 10)

C4_MonotoneDayAndPoints ==
    [][Stepped => /\ day' = day + 1
                  /\ params'.eco_points >= params.eco_points
                  /\ params.eco_points >= 0
                  /\ params'.eco_points >= 0]_vars

\* Three steps have run: one that added points and one that added none.
C4_Witness ==
    /\ day = 3
    /\ params.eco_points = 12
    /\ ecosystem_state = "Critical"

\* C5: the classification computed in a step fixes its scoring: Healthy adds
\* 10 points and raises score by 2 capped at 100, Stressed adds 2 and lowers
\* score by 5 floored at 0, Critical adds 0 and lowers score by 15 floored at 0.
C5_ScoringByClass ==
    [][Stepped =>
        CASE ecosystem_state' = "Healthy" ->
                /\ params'.eco_points = params.eco_points + 10
                /\ params'.score = Min(100, params.score + 2)
          [] ecosystem_state' = "Stressed" ->
                /\ params'.eco_points = params.eco_points + 2
                /\ params'.score = Max(0, params.score - 5)
          [] ecosystem_state' = "Critical" ->
                /\ params'.eco_points = params.eco_points + 0
                /\ params'.score = Max(0, params.score - 15)
          [] OTHER -> FALSE]_vars

\* A Healthy, a Stressed and a Critical step in some order, each scored.
C5_Witness ==
    /\ day = 3
    /\ params.score = 80
    /\ params.eco_points = 12
    /\ history[1].Score = 100
    /\ history[2].Score = 95

\* The parameters a row recorded, carried through the weather event drawn
\* after the row was taken.
AfterWeather(row, event) ==
    [ do |-> IF event = "Drought" THEN row.DO - Dec(1, 1)
             ELSE IF event = "Flash Flood" THEN row.DO + Dec(1, 1) ELSE row.DO,
      nitrates |-> IF event = "Heavy Rain" THEN row.Nitrates + Dec(2, 1)
                   ELSE row.Nitrates,
      toxins |-> IF event = "Drought" THEN Fx(row.Toxins, 12, 10)
                 ELSE IF event = "Flash Flood" THEN row.Toxins + Dec(1, 1)
                 ELSE row.Toxins ]

\* C7: every Step appends exactly one row and leaves the earlier rows alone;
\* the row's Day is the day index before the increment (n steps give rows
\* Day 0..n-1 in order) and its DO, pH, nitrates, toxins, turbidity and score
\* are the values after bounding and scoring and before the weather of that
\* step.
C7_HistoryAppendOnly ==
    /\ [](/\ Len(history) = day
          /\ \A i \in 1 .. Len(history) : history[i].Day = i - 1
          /\ history # << >> =>
                /\ LastRow.pH = params.ph
                /\ LastRow.Turbidity = params.turbidity
                /\ LastRow.Score = params.score
                /\ params.do = AfterWeather(LastRow, last_weather).do
                /\ params.nitrates = AfterWeather(LastRow, last_weather).nitrates
                /\ params.toxins = AfterWeather(LastRow, last_weather).toxins)
    /\ [][Stepped => /\ Len(history') = Len(history) + 1
                     /\ SubSeq(history', 1, Len(history)) = history]_vars

\* Three rows; the weather of the last step changed DO and toxins after the
\* row was taken.
C7_Witness ==
    /\ Len(history) = 3
    /\ history[3].Day = 2
    /\ last_weather = "Drought"
    /\ history[3].Toxins > 0
    /\ params.toxins > history[3].Toxins
    /\ params.do = history[3].DO - Dec(1, 1)

\* C9: from the initial state one Step with factory = farm = urban = 0, no
\* policy and Sunny weather gives dissolvedOxygen 8.075, nitrates 1.84,
\* toxins 0, turbidity 5.0, Healthy, score 100, ecoPoints 10 and day 1.
C9_DayZeroBaseline ==
    ( /\ day = 1
      /\ pollution_inputs = SliderInputs(0, 0, 0)
      /\ policies = NoPolicies
      /\ last_weather = "Sunny" )
    => /\ params.do = Dec(8075, 1000)
       /\ params.nitrates = Dec(184, 100)
       /\ params.toxins = 0
       /\ params.turbidity = Dec(5, 1)
       /\ ecosystem_state = "Healthy"
       /\ params.score = 100
       /\ params.eco_points = 10

\* The baseline step has run.
C9_Witness ==
    /\ day = 1
    /\ pollution_inputs = SliderInputs(0, 0, 0)
    /\ policies = NoPolicies
    /\ last_weather = "Sunny"
    /\ Len(history) = 1
    /\ params.do = Dec(8075, 1000)

\* C6: the classification is Critical iff dissolvedOxygen < 2.5 or toxins >
\* 4.5 or plants < 20; otherwise Stressed iff dissolvedOxygen < 4.5 or
\* nitrates > 7.5 or turbidity > 30; otherwise Healthy.  The comparisons are
\* strict: a value exactly on its threshold does not trigger the rule, and a
\* state meeting a Critical and a Stressed condition is Critical.
C6_ClassificationRule ==
    pc = "return" =>
        /\ ecosystem_state = HealthRule(params.do, params.toxins, params.plants,
                                        params.nitrates, params.turbidity)
        /\ ( /\ params.do \in {Dec(45, 10), Dec(46, 10), Dec(8, 1)}
             /\ params.toxins <= Dec(45, 10)
             /\ params.plants >= Dec(20, 1)
             /\ params.nitrates <= Dec(75, 10)
             /\ params.turbidity <= Dec(30, 1) ) => ecosystem_state = "Healthy"
        /\ ( /\ params.do \in {Dec(25, 10), Dec(26, 10), Dec(44, 10)}
             /\ params.toxins <= Dec(45, 10)
             /\ params.plants >= Dec(20, 1) ) => ecosystem_state = "Stressed"
        /\ ( params.do = Dec(24, 10) \/ params.toxins = Dec(46, 10)
             \/ params.plants = Dec(19, 1) ) => ecosystem_state = "Critical"

\* The stage has classified a state in which every value sits exactly on a
\* threshold.
C6_Witness ==
    /\ pc = "return"
    /\ params.do = Dec(45, 10)
    /\ params.toxins = Dec(45, 10)
    /\ params.plants = Dec(20, 1)
    /\ params.nitrates = Dec(75, 10)
    /\ params.turbidity = Dec(30, 1)
    /\ ecosystem_state = "Healthy"

\* The step that has just run classified with toxins > 4.5 and
\* dissolvedOxygen < 2.5.
Collapsed ==
    /\ history # << >>
    /\ LastRow.Toxins > Dec(45, 10)
    /\ LastRow.DO < Dec(25, 10)

\* C8: stepping every day with factory = farm = urban = 10 and no policy,
\* whatever the weather, within a bounded number of days (two) a step
\* classifies with toxins > 4.5 and dissolvedOxygen < 2.5, and from the first
\* such step on every step is Critical, lowers score by 15 floored at 0 and
\* adds 0 to ecoPoints.
C8_CriticalCollapse ==
    /\ [](day >= 2 => Collapsed)
    /\ [](Collapsed => ecosystem_state = "Critical")
    /\ [][Collapsed' => /\ params'.score = Max(0, params.score - 15)
                        /\ params'.eco_points = params.eco_points]_vars
    /\ [][Collapsed => Collapsed']_vars

\* The run has collapsed and the score has hit its floor.
C8_Witness ==
    /\ day = 8
    /\ Collapsed
    /\ ecosystem_state = "Critical"
    /\ params.score = 0
    /\ params.eco_points = 0
    /\ history[7].Score = 0
    /\ history[6].Score = 10

\* The toxin injection of the documentation, in units of 1 / (1000 * Scale):
\* factoryOutput x 0.6 x treatmentMod x regulationMod.
InjectedToxins1000(factory, pol) ==
    (factory * 6 * (IF pol.treatment THEN 15 ELSE 100)
             * (IF pol.regulation THEN 4 ELSE 10)) \div 10

\* C10: the toxins added by pollution injection equal factoryOutput x 0.6 x
\* treatmentMod x regulationMod with treatmentMod 0.15 or 1.0 and
\* regulationMod 0.4 or 1.0, composed multiplicatively: 0.36 at factory = 10
\* with both policies, 6.0 with neither.  organicFarming and cleanupDrive do
\* not change the injected amount.
C10_ToxinInjection ==
    [][ /\ (params'.toxins - params.toxins) * 1000
               = InjectedToxins1000(pollution_inputs.factory, policies)
        /\ (pollution_inputs.factory = Dec(10, 1)
              /\ policies.treatment /\ policies.regulation)
               => params'.toxins - params.toxins = Dec(36, 100)
        /\ (pollution_inputs.factory = Dec(10, 1)
              /\ ~policies.treatment /\ ~policies.regulation)
               => params'.toxins - params.toxins = Dec(6, 1) ]_vars

\* The injection has run at factory = 10 with all four policies set, on a
\* river that held no toxins.
C10_Witness ==
    /\ pc = "return"
    /\ pollution_inputs.factory = Dec(10, 1)
    /\ policies = AllPolicies
    /\ params.toxins = Dec(36, 100)

\* The parameters other than dissolvedOxygen, nitrates and toxins.
OtherFields(p) == <<p.turbidity, p.algae, p.plants, p.ph, p.score, p.eco_points>>

\* C11: the weather draw changes only the fields listed for the drawn event:
\* HeavyRain adds 2.0 to nitrates; Drought multiplies toxins by 1.2 and
\* subtracts 1.0 from dissolvedOxygen; FlashFlood adds 1.0 to dissolvedOxygen
\* and 1.0 to toxins; Sunny changes nothing.  In all four cases turbidity,
\* algae, plants, ph, score, ecoPoints, the stored classification and the
\* history are left unchanged.
C11_WeatherFrame ==
    [][ /\ OtherFields(params') = OtherFields(params)
        /\ DOMAIN params' = DOMAIN params
        /\ ecosystem_state' = ecosystem_state
        /\ history' = history
        /\ CASE last_weather' = "Heavy Rain" ->
                  /\ params'.nitrates = params.nitrates + Dec(2, 1)
                  /\ params'.do = params.do
                  /\ params'.toxins = params.toxins
             [] last_weather' = "Drought" ->
                  /\ params'.toxins * 10 = params.toxins * 12
                  /\ params'.do = params.do - Dec(1, 1)
                  /\ params'.nitrates = params.nitrates
             [] last_weather' = "Flash Flood" ->
                  /\ params'.do = params.do + Dec(1, 1)
                  /\ params'.toxins = params.toxins + Dec(1, 1)
                  /\ params'.nitrates = params.nitrates
             [] last_weather' = "Sunny" -> params' = params
             [] OTHER -> FALSE ]_vars

\* A Drought has acted on a river that held no dissolved oxygen and 2.5 of
\* toxins.
C11_Witness ==
    /\ pc = "return"
    /\ last_weather = "Drought"
    /\ history[1].DO = 0
    /\ params.do = -Dec(1, 1)
    /\ history[1].Toxins = Dec(25, 10)
    /\ params.toxins = Dec(3, 1)
    /\ ecosystem_state = "Critical"
    /\ params.ph = history[1].pH

\* C12: a dissolvedOxygen that a weather event leaves outside [0, 12] lasts at
\* most until the next Step, whose bounding pass runs before its
\* classification, scoring and history snapshot: in every history row DO is
\* in [0, 12] and pH in [1, 14], and the class of every step is computed from
\* a dissolvedOxygen in [0, 12].
C12_RowsAndClassFromBoundedOxygen ==
    /\ \A i \in 1 .. Len(history) :
          /\ InRange(history[i].DO, 0, Dec(12, 1))
          /\ InRange(history[i].pH, Dec(1, 1), Dec(14, 1))
    /\ history # << >> =>
          ecosystem_state =
              HealthRule(Max(0, Min(Dec(12, 1), LastRow.DO)), LastRow.Toxins,
                         params.plants, LastRow.Nitrates, LastRow.Turbidity)

\* The Drought of the second step took dissolvedOxygen below 0 (the row of
\* that step holds less than 1.0), the third step has run, and a Drought
\* has again left the stored value below 0.
C12_Witness ==
    /\ day = 3
    /\ history[2].DO < Dec(1, 1)
    /\ \E i \in 1 .. Len(event_log) : event_log[i] = [msg |-> "Drought", day |-> 1]
    /\ InRange(history[3].DO, 0, Dec(12, 1))
    /\ last_weather = "Drought"
    /\ params.do < 0

====
